---------------------------- MODULE Spec2Model ----------------------------
(***************************************************************************)
(* Storage handlers of the port layer                                      *)
(* (lib/apiservers/portlayer/restapi/handlers/storage_handlers.go) and the *)
(* two lookup caches they call.  The handlers are translated from the Go   *)
(* source.  The image lookup cache and the volume lookup cache live in     *)
(* another package (lib/portlayer/storage); their behaviour is taken from  *)
(* the design document (sections 4.1, 4.2, 5 and 7).                       *)
(*                                                                         *)
(* Three specifications share the module:                                  *)
(*   SpecImage   the image handlers and the image lookup cache, with two   *)
(*               concurrent requests;                                      *)
(*   SpecVolume  volume store configuration and the volume handlers;       *)
(*   SpecMap     the handlers' error-to-response mapping as a function of  *)
(*               the error kind the cache returns.                         *)
(***************************************************************************)
EXTENDS Integers, Sequences, FiniteSets, TLC

\* ------------------------------------------------------------------ bounds
\* Image ids of the store are 1..MaxImage.
MaxImage == 2
\* Configured volume store names are 1..MaxStore, volume names 1..MaxVolume.
MaxStore == 2
MaxVolume == 2

\* ------------------------------------------------------- program constants
StatusOK == 200
StatusCreated == 201
StatusNotFound == 404
StatusConflict == 409
StatusLocked == 423
StatusInternalServerError == 500

\* The root ("scratch") image of a store: the one image without a parent link.
Scratch == 0

Ids == 1 .. MaxImage

StoreNames == 1 .. MaxStore

VolumeNames == 1 .. MaxVolume

nfsScheme == "nfs"

dsScheme == "ds"

\* Schemes a location URL or a volume's disk path may carry.
Schemes == {nfsScheme, dsScheme, "other"}

\* The two requests that may be in flight at once.
Reqs == {"r1", "r2"}

\* Error kinds of the taxonomy (section 7), "nil" for success.
ErrorKinds ==
    {"AlreadyExists", "NotFound", "InUse", "ChecksumMismatch",
     "UnresolvedParent", "UnsupportedScheme", "BackendFailure"}

VARIABLES
    storeCreated,   \* image cache: the image store is registered
    index,          \* image cache: indexed image id -> parent id
    backend,        \* durable images of the backend: id -> parent id
    dupWrite,       \* some WriteImage succeeded for an id the index already held
    lock,           \* owner of the image index mutex, or "free"
    req,            \* per request: position, parameters, cache result, response
    config,         \* spl.Config.VolumeLocations: store name -> location URL
    imageStores,    \* len(spl.Config.ImageStores)
    pending,        \* configured names the loop of configureVolumeStores has not reached
    cfgState,       \* position of Configure: "start", "stores", "done", "panic"
    installed,      \* the storage handlers are assigned to the API
    failed,         \* configured names whose scheme is unknown or whose driver failed
    addCalls,       \* per store name: successful AddStore calls
    volumeStores,   \* volume cache: registered store name -> backend kind
    volumes,        \* volume cache: volume name -> volume
    attached,       \* volumes attached to a running container
    destroyed,      \* volumes destroyed and not created again
    lastV,          \* the latest volume handler call and its response
    mapping         \* SpecMap: handler, cache results and responses

imageVars == <<storeCreated, index, backend, dupWrite, lock, req>>

configVars == <<config, imageStores, pending, cfgState, installed, failed, addCalls, volumeStores>>

volumeVars == <<installed, volumeStores, volumes, attached, destroyed, lastV>>

\* ------------------------------------------------------------ image graph
EmptyIndex == [i \in {} |-> Scratch]

Insert(ix, id, parent) == [i \in DOMAIN ix \cup {id} |-> IF i = id THEN parent ELSE ix[i]]

Remove(ix, id) == [i \in DOMAIN ix \ {id} |-> ix[i]]

RECURSIVE Anc(_, _, _)
Anc(ix, n, fuel) ==
    IF fuel = 0 \/ n \notin DOMAIN ix
    THEN {}
    ELSE {ix[n]} \cup Anc(ix, ix[n], fuel - 1)

\* Every image reached from n through parent links (the root included).
Ancestors(ix, n) == Anc(ix, n, MaxImage + 1)

Children(ix, n) == {c \in DOMAIN ix : ix[c] = n}

\* n and every descendant of n.
Subtree(ix, n) ==
    IF n = Scratch
    THEN DOMAIN ix
    ELSE {d \in DOMAIN ix : d = n \/ n \in Ancestors(ix, d)}

\* The kept images and every ancestor of a kept image.
Protected(ix, keep) ==
    (keep \cap DOMAIN ix) \cup UNION {Ancestors(ix, k) : k \in keep \cap DOMAIN ix}

\* The images DeleteBranch(target, keep) is to remove.
Eligible(ix, target, keep) == Subtree(ix, target) \ Protected(ix, keep)

\* Leaves of the index among the images still to remove.
Leaves(ix, plan) == {n \in plan : Children(ix, n) = {}}

NextLeaf(ix, plan) == CHOOSE n \in Leaves(ix, plan) : \A m \in Leaves(ix, plan) : n <= m

\* The index accepts an image only under the root or an indexed parent.
ParentResolves(ix, parent) == parent = Scratch \/ parent \in DOMAIN ix


\* ------------------------------------------------- image handlers: helpers
\* convertImage: the swagger image of a cache image.
convertImage(image) ==
    [ID |-> image.ID, SelfLink |-> image.ID, Parent |-> image.Parent]

\* DeleteImage, lines 226-234: every keep-node string is parsed into a URL; the
\* address of image i in the store is modelled by i.
ParseKeepNodesDropped(kn) == {}

ParseKeepNodes(kn) == {k : k \in kn}

\* DeleteImage, lines 251-254: the response lists the deleted images in the
\* order the cache returned them.
DeleteImageResultReversed(deletedImages) ==
    [idx \in 1 .. Len(deletedImages) |->
        convertImage(deletedImages[Len(deletedImages) + 1 - idx])]

DeleteImageResult(deletedImages) ==
    [idx \in 1 .. Len(deletedImages) |-> convertImage(deletedImages[idx])]

CreateImageStoreStatus(err) ==
    IF err # "nil"
    THEN IF err = "AlreadyExists" THEN StatusConflict ELSE StatusInternalServerError
    ELSE StatusCreated

GetImageStatus(err) == IF err # "nil" THEN StatusNotFound ELSE StatusOK

DeleteImageStatus(err) ==
    IF err # "nil"
    THEN CASE err = "InUse" -> StatusLocked
           [] err = "NotFound" -> StatusNotFound
           [] OTHER -> StatusInternalServerError
    ELSE StatusOK

WriteImageStatus(err) == IF err # "nil" THEN StatusInternalServerError ELSE StatusCreated

\* ------------------------------------------------------ image lookup cache
\* The per-index mutual exclusion of section 5.
CanLockAlways(r) == TRUE

CanLock(r) == lock = "free"

\* WriteImage of the cache: what it answers before it indexes the image.
WriteImageCheck(parent, id, sumOK, backendFails) ==
    CASE ~storeCreated -> "NotFound"
      [] ~ParentResolves(index, parent) -> "UnresolvedParent"
      [] id \in DOMAIN index \cup DOMAIN backend -> "AlreadyExists"
      [] backendFails -> "BackendFailure"
      [] ~sumOK -> "ChecksumMismatch"
      [] OTHER -> "nil"

\* DeleteBranch of the cache: what it answers before it removes anything.
DeleteBranchCheck(target, keep, busy) ==
    CASE ~storeCreated -> "NotFound"
      [] target # Scratch /\ target \notin DOMAIN index -> "NotFound"
      [] Eligible(index, target, keep) \cap busy # {} -> "InUse"
      [] OTHER -> "nil"

\* A failed removal restores the index and the backend to what they were when
\* the call began.
RollbackNone(r, ix) == ix

Rollback(r, ix) == req[r].saved

\* GetImage of the cache on an id the index does not hold.
GetImageMissNoParentCheck(id) ==
    IF id \notin DOMAIN backend THEN "NotFound" ELSE "nil"

GetImageMiss(id) ==
    CASE id \notin DOMAIN backend -> "NotFound"
      [] ~ParentResolves(index, backend[id]) -> "UnresolvedParent"
      [] OTHER -> "nil"

IdleReq ==
    [pc |-> "idle", op |-> "none", id |-> Scratch, parent |-> Scratch,
     keepParam |-> {}, plan |-> {}, deleted |-> <<>>, saved |-> EmptyIndex,
     err |-> "nil", status |-> 0, payload |-> <<>>]

Begin(r, op, id) ==
    [IdleReq EXCEPT !.op = op, !.id = id, !.saved = index]

Respond(rec, err, status, payload) ==
    [rec EXCEPT !.pc = "responded", !.err = err, !.status = status, !.payload = payload]

\* ------------------------------------------------ parts that stand still
NoStores == [n \in {} |-> "none"]

NoVolumes == [n \in {} |-> [dev |-> "none"]]

NoResponse ==
    [op |-> "none", name |-> 0, status |-> 0, joined |-> "none", existed |-> FALSE,
     wasAttached |-> FALSE, filled |-> FALSE, pre |-> NoVolumes,
     requested |-> <<>>, capacity |-> <<>>]

NoMapping ==
    [h |-> "none", data |-> <<>>, errA |-> "nil", errB |-> "nil", done |-> FALSE,
     respA |-> [status |-> 0, filled |-> FALSE], respB |-> [status |-> 0, filled |-> FALSE]]

ImageIdle ==
    /\ storeCreated = FALSE /\ index = EmptyIndex /\ backend = EmptyIndex
    /\ dupWrite = FALSE /\ lock = "free" /\ req = [r \in Reqs |-> IdleReq]

ConfigIdle ==
    /\ config = NoStores /\ imageStores = 1 /\ pending = {} /\ cfgState = "done"
    /\ failed = {} /\ addCalls = [n \in StoreNames |-> 0]

VolumeIdle ==
    /\ volumes = NoVolumes /\ attached = {} /\ destroyed = {} /\ lastV = NoResponse

notImage ==
    <<config, imageStores, pending, cfgState, installed, failed, addCalls, volumeStores,
      volumes, attached, destroyed, lastV, mapping>>

notConfig == <<imageVars, volumes, attached, destroyed, lastV, mapping>>

notVolume ==
    <<imageVars, config, imageStores, pending, cfgState, failed, addCalls, mapping>>

notMap == <<imageVars, configVars, volumes, attached, destroyed, lastV>>

\* ---------------------------------------------------------- image actions
\* A request reaches the cache and waits for the index mutex.
Arrive(r) ==
    /\ req[r].pc = "idle"
    /\ req' = [req EXCEPT ![r] = [IdleReq EXCEPT !.pc = "waiting"]]
    /\ UNCHANGED <<storeCreated, index, backend, dupWrite, lock>>
    /\ UNCHANGED notImage

\* A handler whose store name, image id or keep node does not parse answers
\* before it reaches the cache.
HandlerParamError(r, op) ==
    /\ req[r].pc = "idle"
    /\ req' = [req EXCEPT ![r] =
                 Respond([IdleReq EXCEPT !.op = op], "ParseError", StatusInternalServerError, <<>>)]
    /\ UNCHANGED <<storeCreated, index, backend, dupWrite, lock>>
    /\ UNCHANGED notImage

CreateImageStore(r, backendFails) ==
    /\ req[r].pc = "waiting"
    /\ CanLock(r)
    /\ LET err == CASE storeCreated -> "AlreadyExists"
                    [] backendFails -> "BackendFailure"
                    [] OTHER -> "nil"
       IN /\ storeCreated' = (storeCreated \/ err = "nil")
          /\ req' = [req EXCEPT ![r] =
                       Respond(Begin(r, "CreateImageStore", Scratch), err,
                               CreateImageStoreStatus(err), <<>>)]
    /\ lock' = r
    /\ UNCHANGED <<index, backend, dupWrite>>
    /\ UNCHANGED notImage

GetImage(r, id) ==
    /\ req[r].pc = "waiting"
    /\ CanLock(r)
    /\ LET err == CASE ~storeCreated -> "NotFound"
                    [] id \in DOMAIN index -> "nil"
                    [] OTHER -> GetImageMiss(id)
           ix == IF err = "nil" /\ id \notin DOMAIN index
                 THEN Insert(index, id, backend[id])
                 ELSE index
       IN /\ index' = ix
          /\ req' = [req EXCEPT ![r] =
                       Respond(Begin(r, "GetImage", id), err, GetImageStatus(err),
                               IF err = "nil"
                               THEN <<convertImage([ID |-> id, Parent |-> ix[id]])>>
                               ELSE <<>>)]
    /\ lock' = r
    /\ UNCHANGED <<storeCreated, backend, dupWrite>>
    /\ UNCHANGED notImage

WriteImageBegin(r, parent, id, sumOK, backendFails) ==
    /\ req[r].pc = "waiting"
    /\ CanLock(r)
    /\ lock' = r
    /\ req' = [req EXCEPT ![r] =
                 [Begin(r, "WriteImage", id) EXCEPT
                    !.pc = "writing", !.parent = parent,
                    !.err = WriteImageCheck(parent, id, sumOK, backendFails)]]
    /\ UNCHANGED <<storeCreated, index, backend, dupWrite>>
    /\ UNCHANGED notImage

WriteImageCommit(r) ==
    /\ req[r].pc = "writing"
    /\ LET rec == req[r]
           ok == rec.err = "nil"
       IN /\ index' = IF ok THEN Insert(index, rec.id, rec.parent) ELSE index
          /\ backend' = IF ok THEN Insert(backend, rec.id, rec.parent) ELSE backend
          /\ dupWrite' = (dupWrite \/ (ok /\ rec.id \in DOMAIN index))
          /\ req' = [req EXCEPT ![r] =
                       Respond(rec, rec.err, WriteImageStatus(rec.err),
                               IF ok
                               THEN <<convertImage([ID |-> rec.id, Parent |-> rec.parent])>>
                               ELSE <<>>)]
    /\ UNCHANGED <<storeCreated, lock>>
    /\ UNCHANGED notImage

DeleteImageBegin(r, target, kn, busy) ==
    /\ req[r].pc = "waiting"
    /\ CanLock(r)
    /\ lock' = r
    /\ LET keep == ParseKeepNodes(kn)
           err == DeleteBranchCheck(target, keep, busy)
       IN req' = [req EXCEPT ![r] =
                    [Begin(r, "DeleteImage", target) EXCEPT
                       !.pc = "deleting", !.keepParam = kn, !.err = err,
                       !.plan = IF err = "nil" THEN Eligible(index, target, keep) ELSE {}]]
    /\ UNCHANGED <<storeCreated, index, backend, dupWrite>>
    /\ UNCHANGED notImage

\* One removal of DeleteBranch: a leaf of the remaining branch, or a backend
\* failure that undoes the removals made so far.
DeleteImageStep(r, backendFails) ==
    /\ req[r].pc = "deleting"
    /\ req[r].err = "nil"
    /\ Leaves(index, req[r].plan) # {}
    /\ LET rec == req[r]
           n == NextLeaf(index, rec.plan)
       IN IF backendFails
          THEN /\ index' = Rollback(r, index)
               /\ backend' = [i \in (DOMAIN backend \cup {d \in DOMAIN rec.saved : d \notin DOMAIN index})
                                |-> IF i \in DOMAIN backend THEN backend[i] ELSE rec.saved[i]]
               /\ req' = [req EXCEPT ![r] =
                            [rec EXCEPT !.err = "BackendFailure", !.plan = {}, !.deleted = <<>>]]
          ELSE /\ index' = Remove(index, n)
               /\ backend' = Remove(backend, n)
               /\ req' = [req EXCEPT ![r] =
                            [rec EXCEPT !.plan = @ \ {n},
                                        !.deleted = Append(@, [ID |-> n, Parent |-> index[n]])]]
    /\ UNCHANGED <<storeCreated, dupWrite, lock>>
    /\ UNCHANGED notImage

DeleteImageFinish(r) ==
    /\ req[r].pc = "deleting"
    /\ req[r].err # "nil" \/ req[r].plan = {}
    /\ LET rec == req[r]
       IN req' = [req EXCEPT ![r] =
                    Respond(rec, rec.err, DeleteImageStatus(rec.err),
                            IF rec.err = "nil" THEN DeleteImageResult(rec.deleted) ELSE <<>>)]
    /\ UNCHANGED <<storeCreated, index, backend, dupWrite, lock>>
    /\ UNCHANGED notImage

\* The response is written and the request ends.
Release(r) ==
    /\ req[r].pc = "responded"
    /\ req' = [req EXCEPT ![r] = IdleReq]
    /\ lock' = IF lock = r THEN "free" ELSE lock
    /\ UNCHANGED <<storeCreated, index, backend, dupWrite>>
    /\ UNCHANGED notImage

\* The images a running container holds when DeleteBranch is called: none or one.
BusySets == {{}} \cup {{i} : i \in Ids}

\* Durable images an earlier process may have left in the backend.
Preloads == {EmptyIndex, Insert(Insert(EmptyIndex, 1, Scratch), 2, 1)}

InitImage ==
    /\ storeCreated = FALSE
    /\ index = EmptyIndex
    /\ backend \in Preloads
    /\ dupWrite = FALSE
    /\ lock = "free"
    /\ req = [r \in Reqs |-> IdleReq]
    /\ ConfigIdle /\ installed = TRUE /\ volumeStores = NoStores
    /\ VolumeIdle /\ mapping = NoMapping

NextImage ==
    \E r \in Reqs :
        \/ \E op \in {"GetImage", "WriteImage", "DeleteImage"} : HandlerParamError(r, op)
        \/ Arrive(r)
        \/ \E f \in BOOLEAN : CreateImageStore(r, f)
        \/ \E id \in Ids : GetImage(r, id)
        \/ \E parent \in Ids \cup {Scratch}, id \in Ids, sumOK \in BOOLEAN, f \in BOOLEAN :
              WriteImageBegin(r, parent, id, sumOK, f)
        \/ WriteImageCommit(r)
        \/ \E target \in Ids \cup {Scratch}, kn \in SUBSET Ids, busy \in BusySets :
              DeleteImageBegin(r, target, kn, busy)
        \/ \E f \in BOOLEAN : DeleteImageStep(r, f)
        \/ DeleteImageFinish(r)
        \/ Release(r)

\* --------------------------------------------- volume store configuration
\* The location URLs of the configuration: scheme and user name.
LocationURLs ==
    {[scheme |-> nfsScheme, user |-> "none"], [scheme |-> nfsScheme, user |-> "numeric"],
     [scheme |-> nfsScheme, user |-> "nonnumeric"], [scheme |-> dsScheme, user |-> "none"],
     [scheme |-> "other", user |-> "none"]}

\* configureVolumeStores, lines 109-140: the volume store one configured entry
\* yields, or the error the function returns.
StoreForUnknownAsDatastore(dsurl, driverFails) ==
    CASE dsurl.scheme = nfsScheme ->
            IF dsurl.user = "nonnumeric" THEN [err |-> "Atoi", kind |-> "none"]
            ELSE IF driverFails THEN [err |-> "BackendFailure", kind |-> "none"]
            ELSE [err |-> "nil", kind |-> nfsScheme]
      [] OTHER ->
            IF driverFails THEN [err |-> "BackendFailure", kind |-> "none"]
            ELSE [err |-> "nil", kind |-> dsScheme]

StoreFor(dsurl, driverFails) ==
    CASE dsurl.scheme = nfsScheme ->
            IF dsurl.user = "nonnumeric" THEN [err |-> "Atoi", kind |-> "none"]
            ELSE IF driverFails THEN [err |-> "BackendFailure", kind |-> "none"]
            ELSE [err |-> "nil", kind |-> nfsScheme]
      [] dsurl.scheme = dsScheme ->
            IF driverFails THEN [err |-> "BackendFailure", kind |-> "none"]
            ELSE [err |-> "nil", kind |-> dsScheme]
      [] OTHER -> [err |-> "UnsupportedScheme", kind |-> "none"]

\* AddStore of the volume cache: a registered name is refused.
AddStoreErr(name) == IF name \in DOMAIN volumeStores THEN "AlreadyExists" ELSE "nil"

\* Configure, lines 58-76: the image store of the configuration.
ConfigureImageStore(newImageStoreFails) ==
    /\ cfgState = "start"
    /\ cfgState' = IF imageStores = 0 \/ newImageStoreFails THEN "panic" ELSE "stores"
    /\ UNCHANGED <<config, imageStores, pending, installed, failed, addCalls, volumeStores>>
    /\ UNCHANGED notConfig

\* One iteration of the loop of configureVolumeStores (lines 108-146); the map
\* is ranged over in any order.  An error ends Configure in a panic (line 80).
ConfigureVolumeStore(name, driverFails) ==
    /\ cfgState = "stores"
    /\ name \in pending
    /\ LET vs == StoreFor(config[name], driverFails)
           err == IF vs.err # "nil" THEN vs.err ELSE AddStoreErr(name)
       IN /\ failed' = IF driverFails \/ config[name].scheme \notin {nfsScheme, dsScheme}
                          \/ config[name].user = "nonnumeric"
                       THEN failed \cup {name} ELSE failed
          /\ IF err # "nil"
             THEN /\ cfgState' = "panic"
                  /\ UNCHANGED <<pending, addCalls, volumeStores>>
             ELSE /\ cfgState' = cfgState
                  /\ pending' = pending \ {name}
                  /\ addCalls' = [addCalls EXCEPT ![name] = @ + 1]
                  /\ volumeStores' = [n \in DOMAIN volumeStores \cup {name} |->
                                        IF n = name THEN vs.kind ELSE volumeStores[n]]
    /\ UNCHANGED <<config, imageStores, installed>>
    /\ UNCHANGED notConfig

\* Configure, lines 83-95: the handlers are assigned once every store is added.
InstallHandlers ==
    /\ cfgState = "stores"
    /\ pending = {}
    /\ cfgState' = "done"
    /\ installed' = TRUE
    /\ UNCHANGED <<config, imageStores, pending, failed, addCalls, volumeStores>>
    /\ UNCHANGED notConfig

Configurations == UNION {[names -> LocationURLs] : names \in SUBSET StoreNames}

InitConfig ==
    /\ config \in Configurations
    /\ imageStores \in {0, 1, 2}
    /\ pending = DOMAIN config
    /\ cfgState = "start"
    /\ installed = FALSE
    /\ failed = {}
    /\ addCalls = [n \in StoreNames |-> 0]
    /\ volumeStores = NoStores
    /\ ImageIdle /\ VolumeIdle /\ mapping = NoMapping

NextConfig ==
    \/ \E f \in BOOLEAN : ConfigureImageStore(f)
    \/ \E name \in StoreNames, f \in BOOLEAN : ConfigureVolumeStore(name, f)
    \/ InstallHandlers

\* --------------------------------------------------------- volume handlers
\* The call a handler starts: its name parameter and the cache as it finds it.
Call(op, name) ==
    [NoResponse EXCEPT !.op = op, !.name = name, !.pre = volumes,
                       !.existed = (name \in DOMAIN volumes),
                       !.wasAttached = (name \in attached)]

\* VolumeGet of the cache: the volume (a sequence of length one) or no volume,
\* and the error.
VolumeGet(name) ==
    IF name \in DOMAIN volumes
    THEN [data |-> <<volumes[name]>>, err |-> "nil"]
    ELSE [data |-> <<>>, err |-> "NotFound"]

\* VolumeCreate of the cache.
VolumeCreateErr(name, store, backendFails) ==
    CASE store \notin DOMAIN volumeStores -> "NotFound"
      [] name \in DOMAIN volumes -> "AlreadyExists"
      [] backendFails -> "BackendFailure"
      [] OTHER -> "nil"

\* VolumeDestroy of the cache.
VolumeDestroyErr(name) ==
    CASE name \notin DOMAIN volumes -> "NotFound"
      [] name \in attached -> "InUse"
      [] OTHER -> "nil"

\* ------------------------------------------------- 64-bit capacity values
\* A 64-bit word is four 16-bit limbs, least significant first; an int64 and
\* the uint64 it converts to share the word (two's complement).
LimbBase == 2 ^ 16

Word(l1, l2, l3, l4) == <<l1, l2, l3, l4>>

\* The product of a word and a small factor with every carry kept: five limbs.
MulLimbs(w, k) ==
    LET p1 == w[1] * k
        p2 == w[2] * k + (p1 \div LimbBase)
        p3 == w[3] * k + (p2 \div LimbBase)
        p4 == w[4] * k + (p3 \div LimbBase)
    IN <<p1 % LimbBase, p2 % LimbBase, p3 % LimbBase, p4 % LimbBase, p4 \div LimbBase>>

\* uint64 multiplication: the product modulo 2^64.
Mul64(w, k) == SubSeq(MulLimbs(w, k), 1, 4)

\* int64 comparison with zero: the sign bit of the word.
IsNegative(w) == w[4] >= LimbBase \div 2

\* uint64 comparison a < b.
RECURSIVE LessFrom(_, _, _)
LessFrom(a, b, i) ==
    IF i = 0 THEN FALSE
    ELSE IF a[i] # b[i] THEN a[i] < b[i]
    ELSE LessFrom(a, b, i - 1)

Less64(a, b) == LessFrom(a, b, 4)

\* Requested capacities (params.VolumeRequest.Capacity, an int64).  Among them
\* 0, 1, 1024, 2^54 - 1, 2^54, 2^63 - 1 (the largest), -1 and -2^63 (the
\* smallest).
Capacities ==
    {Word(l1, l2, l2, l4) : l1 \in {0, 1, 1024, 65535}, l2 \in {0, 65535},
                            l4 \in {0, 63, 64, 32767, 32768, 65535}}

\* The request of the scenario of section 8: 1024, created as 1 MiB.
ScenarioCapacity == Word(1024, 0, 0, 0)

\* CreateVolume, lines 366-374: the capacity handed to VolumeCreate.
CreateVolumeCapacity(requested) ==
    LET capacity == IF IsNegative(requested)
                    THEN Word(1024, 0, 0, 0)
                    ELSE requested
    IN Mul64(capacity, 1024)

CreateVolumeStatus(err) ==
    IF err # "nil"
    THEN CASE err = "AlreadyExists" -> StatusConflict
           [] err = "NotFound" -> StatusNotFound
           [] OTHER -> StatusInternalServerError
    ELSE StatusCreated

\* GetVolume, lines 407-424: only the not-exist error ends the handler before
\* fillVolumeModel (err == os.ErrNotExist, line 408); fillVolumeModel reads the
\* volume it is given (line 572), so a nil volume panics (status 0: no
\* response) and any other volume is answered, with 500 when its store name
\* does not resolve and with 200 OK otherwise.  "filled" says the handler went
\* on to build the volume model from the data.
GetVolumeResponse(data, err, storeNameFails) ==
    IF err = "NotFound"
    THEN [status |-> StatusNotFound, filled |-> FALSE]
    ELSE IF Len(data) = 0
         THEN [status |-> 0, filled |-> TRUE]
         ELSE IF storeNameFails
              THEN [status |-> StatusInternalServerError, filled |-> TRUE]
              ELSE [status |-> StatusOK, filled |-> TRUE]

\* RemoveVolume, lines 433-451.
RemoveVolumeStatusNoConflict(err) ==
    IF err # "nil"
    THEN CASE err = "NotFound" -> StatusNotFound
           [] OTHER -> StatusInternalServerError
    ELSE StatusOK

RemoveVolumeStatus(err) ==
    IF err # "nil"
    THEN CASE err = "NotFound" -> StatusNotFound
           [] err = "InUse" -> StatusConflict
           [] OTHER -> StatusInternalServerError
    ELSE StatusOK

\* VolumeJoin, lines 507-514: the join routine the scheme of the volume's disk
\* path selects ("none": neither is called, the scheme is unknown).
JoinRoutineDefaultDatastore(scheme) ==
    IF scheme = nfsScheme THEN nfsScheme ELSE dsScheme

JoinRoutine(scheme) ==
    CASE scheme = nfsScheme -> nfsScheme
      [] scheme = dsScheme -> dsScheme
      [] OTHER -> "none"

\* lastV.capacity is the capacity VolumeCreate was called with, and empty when
\* the handler returned before the call (lines 353-359).
CreateVolume(name, store, dev, requested, storeNameFails, backendFails) ==
    /\ installed
    /\ LET err == IF storeNameFails THEN "ParseError"
                  ELSE VolumeCreateErr(name, store, backendFails)
       IN /\ volumes' = IF err = "nil"
                        THEN [n \in DOMAIN volumes \cup {name} |->
                                IF n = name THEN [dev |-> dev] ELSE volumes[n]]
                        ELSE volumes
          /\ destroyed' = IF err = "nil" THEN destroyed \ {name} ELSE destroyed
          /\ lastV' = [Call("CreateVolume", name) EXCEPT
                         !.status = CreateVolumeStatus(err),
                         !.requested = requested,
                         !.capacity = IF storeNameFails THEN <<>>
                                      ELSE CreateVolumeCapacity(requested)]
    /\ UNCHANGED <<installed, volumeStores, attached>>
    /\ UNCHANGED notVolume

GetVolume(name, storeNameFails) ==
    /\ installed
    /\ LET got == VolumeGet(name)
           resp == GetVolumeResponse(got.data, got.err, storeNameFails)
       IN lastV' = [Call("GetVolume", name) EXCEPT
                      !.status = resp.status, !.filled = resp.filled]
    /\ UNCHANGED <<installed, volumeStores, volumes, attached, destroyed>>
    /\ UNCHANGED notVolume

RemoveVolume(name) ==
    /\ installed
    /\ LET err == VolumeDestroyErr(name)
       IN /\ volumes' = IF err = "nil"
                        THEN [n \in DOMAIN volumes \ {name} |-> volumes[n]]
                        ELSE volumes
          /\ destroyed' = IF err = "nil" THEN destroyed \cup {name} ELSE destroyed
          /\ lastV' = [Call("RemoveVolume", name) EXCEPT !.status = RemoveVolumeStatus(err)]
    /\ UNCHANGED <<installed, volumeStores, attached>>
    /\ UNCHANGED notVolume

VolumeJoin(name, joinFails) ==
    /\ installed
    /\ LET got == VolumeGet(name)
           routine == IF got.err # "nil" THEN "none" ELSE JoinRoutine(got.data[1].dev)
           err == CASE got.err # "nil" -> got.err
                    [] routine = "none" -> "UnsupportedScheme"
                    [] joinFails -> "BackendFailure"
                    [] OTHER -> "nil"
       IN lastV' = [Call("VolumeJoin", name) EXCEPT
                      !.joined = routine,
                      !.status = IF err # "nil" THEN StatusInternalServerError ELSE StatusOK]
    /\ UNCHANGED <<installed, volumeStores, volumes, attached, destroyed>>
    /\ UNCHANGED notVolume

\* A container that mounts the volume starts or stops.
Attach(name) ==
    /\ name \in DOMAIN volumes
    /\ name \notin attached
    /\ attached' = attached \cup {name}
    /\ UNCHANGED <<installed, volumeStores, volumes, destroyed, lastV>>
    /\ UNCHANGED notVolume

Detach(name) ==
    /\ name \in attached
    /\ attached' = attached \ {name}
    /\ UNCHANGED <<installed, volumeStores, volumes, destroyed, lastV>>
    /\ UNCHANGED notVolume

\* After Configure with the one location vol1 -> ds://...
InitVolume ==
    /\ installed = TRUE
    /\ volumeStores = [n \in {1} |-> dsScheme]
    /\ volumes = NoVolumes
    /\ attached = {}
    /\ destroyed = {}
    /\ lastV = NoResponse
    /\ ImageIdle /\ ConfigIdle /\ mapping = NoMapping

NextVolume ==
    \/ \E name \in VolumeNames, store \in StoreNames, dev \in Schemes,
          nf \in BOOLEAN, bf \in BOOLEAN :
             CreateVolume(name, store, dev, ScenarioCapacity, nf, bf)
    \/ \E name \in VolumeNames, sf \in BOOLEAN : GetVolume(name, sf)
    \/ \E name \in VolumeNames : RemoveVolume(name)
    \/ \E name \in VolumeNames, f \in BOOLEAN : VolumeJoin(name, f)
    \/ \E name \in VolumeNames : Attach(name)
    \/ \E name \in VolumeNames : Detach(name)

\* CreateVolume over the requested capacities, on datastore volumes that are
\* removed again.
NextCapacity ==
    \/ \E name \in VolumeNames, store \in StoreNames, requested \in Capacities,
          nf \in BOOLEAN : CreateVolume(name, store, dsScheme, requested, nf, FALSE)
    \/ \E name \in VolumeNames : RemoveVolume(name)

\* ------------------------------------------- error-to-response mapping
Handlers ==
    {"CreateImageStore", "GetImage", "DeleteImage", "ListImages", "WriteImage",
     "VolumeStoresList", "CreateVolume", "GetVolume", "RemoveVolume", "VolumesList",
     "VolumeJoin"}

\* The status a handler answers when its cache call returns err (and, for
\* GetVolume, the volume data).
HandlerResponse(h, data, err) ==
    CASE h = "CreateImageStore" -> [status |-> CreateImageStoreStatus(err), filled |-> FALSE]
      [] h = "GetImage" -> [status |-> GetImageStatus(err), filled |-> FALSE]
      [] h = "DeleteImage" -> [status |-> DeleteImageStatus(err), filled |-> FALSE]
      [] h = "ListImages" ->
            [status |-> IF err # "nil" THEN StatusNotFound ELSE StatusOK, filled |-> FALSE]
      [] h = "WriteImage" -> [status |-> WriteImageStatus(err), filled |-> FALSE]
      [] h = "CreateVolume" -> [status |-> CreateVolumeStatus(err), filled |-> FALSE]
      [] h = "GetVolume" -> GetVolumeResponse(data, err, FALSE)
      [] h = "RemoveVolume" -> [status |-> RemoveVolumeStatus(err), filled |-> FALSE]
      [] OTHER ->
            [status |-> IF err # "nil" THEN StatusInternalServerError ELSE StatusOK,
             filled |-> err = "nil" /\ h = "VolumesList"]

\* A handler answers two calls: the cache returned errA in one, errB in the other.
HandlerResponds(h) ==
    /\ mapping.h = h
    /\ ~mapping.done
    /\ mapping' = [mapping EXCEPT
                     !.done = TRUE,
                     !.respA = HandlerResponse(h, mapping.data, mapping.errA),
                     !.respB = HandlerResponse(h, mapping.data, mapping.errB)]
    /\ UNCHANGED notMap

InitMap ==
    /\ mapping \in {[NoMapping EXCEPT !.h = h, !.data = d, !.errA = a, !.errB = b] :
                       h \in Handlers, d \in {<<>>, <<[dev |-> dsScheme]>>},
                       a \in ErrorKinds \cup {"nil"}, b \in ErrorKinds \cup {"nil"}}
    /\ ImageIdle /\ ConfigIdle /\ installed = TRUE /\ volumeStores = NoStores
    /\ VolumeIdle

NextMap == \E h \in Handlers : HandlerResponds(h)

\* ---------------------------------------------------------- specifications
vars ==
    <<storeCreated, index, backend, dupWrite, lock, req, config, imageStores, pending,
      cfgState, installed, failed, addCalls, volumeStores, volumes, attached, destroyed,
      lastV, mapping>>

SpecImage == InitImage /\ [][NextImage]_vars

SpecConfig == InitConfig /\ [][NextConfig]_vars

SpecVolume == InitVolume /\ [][NextVolume]_vars

SpecMap == InitMap /\ [][NextMap]_vars

SpecCapacity == InitVolume /\ [][NextCapacity]_vars

\* ------------------------------------------------------------ image claims
IsDelete(r) == req[r].op = "DeleteImage" /\ req[r].err # "ParseError"

Responded(r, op) == req[r].pc = "responded" /\ req[r].op = op /\ req[r].err # "ParseError"

\* The images a request has removed since it began.
RemovedBy(r) == DOMAIN req[r].saved \ DOMAIN index

PayloadIds(r) == {req[r].payload[k].ID : k \in DOMAIN req[r].payload}

\* C1: DeleteBranch(image, keepNodes) never removes an image whose selfLink is in
\* keepNodes nor an ancestor of one, at any point of the deletion and in the list
\* it returns; in a chain R -> A -> B, DeleteBranch(A, keep = {B}) removes
\* nothing and answers OK with an empty list.
C1_KeptAndAncestorsSurvive ==
    \A r \in Reqs :
        IsDelete(r) /\ req[r].pc \in {"deleting", "responded"} =>
            LET rec == req[r]
                prot == Protected(rec.saved, rec.keepParam)
            IN /\ RemovedBy(r) \cap prot = {}
               /\ PayloadIds(r) \cap prot = {}
               /\ \A a \in Ids, b \in Ids :
                     ( /\ rec.pc = "responded"
                       /\ a \in DOMAIN rec.saved /\ b \in DOMAIN rec.saved
                       /\ rec.saved[a] = Scratch /\ rec.saved[b] = a
                       /\ Children(rec.saved, a) = {b} /\ Children(rec.saved, b) = {}
                       /\ rec.id = a /\ rec.keepParam = {b} )
                     => /\ rec.status = StatusOK
                        /\ rec.payload = <<>>
                        /\ index = rec.saved

\* Witness of C1: DeleteBranch(A, keep = {B}) on the chain R -> A -> B has answered.
C1_Witness ==
    \E r \in Reqs, a \in Ids, b \in Ids :
        /\ Responded(r, "DeleteImage")
        /\ a \in DOMAIN req[r].saved /\ b \in DOMAIN req[r].saved
        /\ req[r].saved[a] = Scratch /\ req[r].saved[b] = a
        /\ req[r].id = a /\ req[r].keepParam = {b}
        /\ req[r].status = StatusOK

\* A second case of C1: a sibling of the kept image is removed, the kept one stays.
C1_WitnessSibling ==
    \E r \in Reqs :
        /\ Responded(r, "DeleteImage")
        /\ req[r].payload # <<>>
        /\ req[r].keepParam \cap DOMAIN index # {}

\* C2: a WriteImage or DeleteBranch call that failed in the cache (and a
\* DeleteBranch that is failing) has left the image index as it was when the
\* call began: no entry for the written id, no image of the branch removed.
C2_FailedCallLeavesIndex ==
    \A r \in Reqs :
        LET rec == req[r]
        IN /\ ( /\ rec.op \in {"WriteImage", "DeleteImage"}
                /\ rec.pc \in {"writing", "deleting", "responded"}
                /\ rec.err \notin {"nil", "ParseError"} )
              => index = rec.saved
           /\ Responded(r, "WriteImage") /\ rec.status # StatusCreated
              => index = rec.saved
           /\ Responded(r, "DeleteImage") /\ rec.status # StatusOK
              => index = rec.saved /\ rec.payload = <<>>

\* Witness of C2: a DeleteBranch of a branch of two or more images failed in the
\* backend, and a WriteImage failed its checksum.
C2_Witness ==
    \E r \in Reqs :
        /\ Responded(r, "DeleteImage")
        /\ req[r].err = "BackendFailure"
        /\ Cardinality(Eligible(req[r].saved, req[r].id, req[r].keepParam)) >= 2

C2_WitnessWrite ==
    \E r \in Reqs : Responded(r, "WriteImage") /\ req[r].err = "ChecksumMismatch"

C4_BottomUp ==
    \A r \in Reqs :
        IsDelete(r) =>
            LET rec == req[r]
            IN /\ rec.pc = "responded" =>
                    \A a \in DOMAIN rec.payload, b \in DOMAIN rec.payload :
                        rec.payload[a].Parent = rec.payload[b].ID => a < b
               /\ rec.pc \in {"deleting", "responded"} =>
                    \A d \in RemovedBy(r) : Children(index, d) = {}
               /\ rec.pc = "deleting" =>
                    \A k \in DOMAIN rec.deleted : Children(index, rec.deleted[k].ID) = {}

\* Witness of C4: a child and then its parent were removed and returned.
C4_Witness ==
    \E r \in Reqs :
        /\ Responded(r, "DeleteImage")
        /\ Len(req[r].payload) >= 2
        /\ req[r].payload[1].Parent = req[r].payload[2].ID

\* A request is inside the cache, holding the index mutex.
InCache(r) ==
    \/ req[r].pc \in {"writing", "deleting"}
    \/ req[r].pc = "responded" /\ req[r].err # "ParseError"

\* What a call leaves in the index when it runs alone from the index ix.
SequentialIndex(rec, ix) ==
    CASE rec.op = "WriteImage" /\ rec.err = "nil" -> Insert(ix, rec.id, rec.parent)
      [] rec.op = "DeleteImage" /\ rec.err = "nil" ->
            [i \in DOMAIN ix \ Eligible(ix, rec.id, rec.keepParam) |-> ix[i]]
      [] rec.op = "GetImage" /\ rec.err = "nil" /\ rec.id \notin DOMAIN ix ->
            Insert(ix, rec.id, backend[rec.id])
      [] OTHER -> ix

\* C9: requests on the image index are serialized: at most one is inside the
\* cache, every answered call has left the index as if it had run alone from
\* the index it found, no WriteImage has succeeded for an id the index held,
\* and the parent of a written image is in the index.
C9_Serialized ==
    /\ Cardinality({r \in Reqs : InCache(r)}) <= 1
    /\ ~dupWrite
    /\ \A r \in Reqs :
          req[r].pc = "responded" /\ req[r].err # "ParseError" =>
              /\ index = SequentialIndex(req[r], req[r].saved)
              /\ Responded(r, "WriteImage") /\ req[r].err = "nil" =>
                    /\ ParentResolves(index, req[r].parent)
                    /\ req[r].id \notin DOMAIN req[r].saved

\* Witness of C9: a WriteImage is about to index its image while the other
\* request waits for the mutex.
C9_Witness ==
    \E r \in Reqs, q \in Reqs :
        /\ req[r].pc = "writing" /\ req[r].err = "nil"
        /\ req[r].parent # Scratch
        /\ req[q].pc = "waiting"

\* ----------------------------------------------------------- volume claims
\* C5 (as claimed): for every handler, two different error kinds the cache
\* returns are answered with two different statuses.
C5_DistinctStatusPerKind ==
    ( /\ mapping.done
      /\ mapping.errA \in ErrorKinds /\ mapping.errB \in ErrorKinds
      /\ mapping.errA # mapping.errB )
    => mapping.respA.status # mapping.respB.status

\* C6: VolumeJoin calls the join routine of the scheme of the volume's disk
\* path, nfs or ds, and no other; with any other scheme, or without the volume,
\* it calls neither and answers 500; it never changes the volume cache and
\* always answers, so the handlers keep serving.
C6_JoinDispatch ==
    lastV.op = "VolumeJoin" =>
        /\ volumes = lastV.pre
        /\ installed
        /\ lastV.status \in {StatusOK, StatusInternalServerError}
        /\ IF lastV.existed
           THEN LET dev == lastV.pre[lastV.name].dev
                IN /\ dev = nfsScheme => lastV.joined = nfsScheme
                   /\ dev = dsScheme => lastV.joined = dsScheme
                   /\ dev \notin {nfsScheme, dsScheme} =>
                         /\ lastV.joined = "none"
                         /\ lastV.status = StatusInternalServerError
           ELSE lastV.joined = "none" /\ lastV.status = StatusInternalServerError

\* Witness of C6: a join of a volume whose scheme is neither nfs nor ds was refused.
C6_Witness ==
    /\ lastV.op = "VolumeJoin"
    /\ lastV.existed
    /\ lastV.pre[lastV.name].dev \notin {nfsScheme, dsScheme}
    /\ lastV.status = StatusInternalServerError

\* A second case of C6: the nfs routine was called and the join answered OK.
C6_WitnessNfs ==
    lastV.op = "VolumeJoin" /\ lastV.joined = nfsScheme /\ lastV.status = StatusOK

\* C7: RemoveVolume of an attached volume answers Conflict (in use) and the
\* volume stays in the cache; of a detached volume it answers OK and the volume
\* is gone; GetVolume answers NotFound exactly for the names the cache does not
\* hold, so for every destroyed name until it is created again.
C7_DestroyLifecycle ==
    /\ destroyed \cap DOMAIN volumes = {}
    /\ lastV.op = "RemoveVolume" =>
          /\ lastV.existed /\ lastV.wasAttached =>
                /\ lastV.status = StatusConflict
                /\ lastV.name \in DOMAIN volumes
                /\ VolumeGet(lastV.name).err = "nil"
          /\ lastV.existed /\ ~lastV.wasAttached =>
                /\ lastV.status = StatusOK
                /\ lastV.name \notin DOMAIN volumes
                /\ lastV.name \in destroyed
          /\ ~lastV.existed => lastV.status = StatusNotFound
    /\ lastV.op = "GetVolume" =>
          /\ lastV.name \in destroyed => lastV.status = StatusNotFound
          /\ lastV.status = StatusNotFound <=> lastV.name \notin DOMAIN volumes
          /\ lastV.status # StatusNotFound =>
                lastV.status \in {StatusOK, StatusInternalServerError}

\* Witness of C7: GetVolume of a destroyed volume answered NotFound.
C7_Witness ==
    /\ lastV.op = "GetVolume"
    /\ lastV.name \in destroyed
    /\ lastV.status = StatusNotFound

\* A second case of C7: the destroy of an attached volume was refused.
C7_WitnessInUse ==
    /\ lastV.op = "RemoveVolume"
    /\ lastV.wasAttached
    /\ lastV.status = StatusConflict

\* C8: the handlers are installed only when every configured entry has scheme
\* nfs or ds, no driver failed, and each entry was added to the volume cache
\* exactly once, under its own name, with the backend its scheme selects; an
\* unknown scheme or a failed driver ends Configure in a panic with the
\* handlers not installed.
C8_ConfigureAllOrPanic ==
    /\ installed =>
          /\ cfgState = "done"
          /\ imageStores > 0
          /\ failed = {}
          /\ DOMAIN volumeStores = DOMAIN config
          /\ \A n \in DOMAIN config :
                /\ config[n].scheme \in {nfsScheme, dsScheme}
                /\ addCalls[n] = 1
                /\ volumeStores[n] = config[n].scheme
    /\ \A n \in StoreNames : addCalls[n] <= 1
    /\ \A n \in StoreNames \ DOMAIN config : addCalls[n] = 0
    /\ failed # {} => cfgState = "panic"
    /\ cfgState = "panic" => ~installed

\* Witness of C8: two stores, one of each scheme, were added and the handlers
\* installed.
C8_Witness ==
    /\ installed
    /\ \E a \in DOMAIN config, b \in DOMAIN config :
          config[a].scheme = nfsScheme /\ config[b].scheme = dsScheme

\* A second case of C8: Configure panicked on an entry after it had added another.
C8_WitnessPanic ==
    cfgState = "panic" /\ failed # {} /\ DOMAIN volumeStores # {} /\ ~installed

\* C10 (as claimed): whenever VolumeGet returns an error, GetVolume answers with
\* an error status and does not go on to build the volume model.
C10_GetVolumeErrorAnswered ==
    ( mapping.done /\ mapping.h = "GetVolume" /\ mapping.errA # "nil" )
    => /\ mapping.respA.status \in {StatusNotFound, StatusInternalServerError}
       /\ ~mapping.respA.filled

\* C11 (as claimed): the capacity CreateVolume passes to VolumeCreate is the
\* requested capacity times 1024 when the request is zero or positive and
\* 1024 times 1024 when it is negative, and it is never smaller than a
\* non-negative requested capacity (the multiplication does not wrap).
C11_CapacityScaled ==
    ( lastV.op = "CreateVolume" /\ lastV.capacity # <<>> )
    => IF IsNegative(lastV.requested)
       THEN lastV.capacity = Word(0, 16, 0, 0)
       ELSE /\ MulLimbs(lastV.requested, 1024) = lastV.capacity \o <<0>>
            /\ ~Less64(lastV.capacity, lastV.requested)

=============================================================================
